---- MODULE Spec2Model ----
(***************************************************************************)
(* Model of circuit/aesni/c/aesni.c: the label algebra (label_xor,         *)
(* label_mul2, label_mul4, make_k), the key schedule (make_cipher), the    *)
(* two gate functions (garble2 on struct label, garble on __m128i) and the *)
(* benchmark driver (main).                                                *)
(*                                                                         *)
(* Data representation.  Every machine integer keeps its width and is a    *)
(* tuple of bytes in x86 memory order (byte 1 is the least significant):   *)
(*   uint32_t  : 4 bytes      uint64_t : 8 bytes      __m128i : 16 bytes   *)
(* A struct label is the record [d0, d1] of two uint64_t.                  *)
(***************************************************************************)
EXTENDS Integers, Sequences, FiniteSets, TLC

\* ------------------------------------------------------------------------
\* Bounds of the model (not program constants).
\* ------------------------------------------------------------------------

\* Number of label-algebra operations applied in a row in SpecLabel.
MaxOps == 2

\* Iterations of each loop of main (the program runs 23802664 of them).
MaxRounds == 2

\* ------------------------------------------------------------------------
\* Byte-level arithmetic: what the C operators ^, |, << and >> do.
\* ------------------------------------------------------------------------

Pow2 == <<1, 2, 4, 8, 16, 32, 64, 128, 256>>

\* Bitwise XOR / OR of two n-bit naturals, bit by bit.
RECURSIVE XorBits(_, _, _)
XorBits(a, b, n) ==
    IF n = 0 THEN 0
    ELSE (((a % 2) + (b % 2)) % 2) + 2 * XorBits(a \div 2, b \div 2, n - 1)

RECURSIVE OrBits(_, _, _)
OrBits(a, b, n) ==
    IF n = 0 THEN 0
    ELSE (IF (a % 2) + (b % 2) > 0 THEN 1 ELSE 0)
         + 2 * OrBits(a \div 2, b \div 2, n - 1)

\* Nibble tables, so that a byte operation is two lookups.
XorNib == [a \in 0..15 |-> [b \in 0..15 |-> XorBits(a, b, 4)]]
OrNib  == [a \in 0..15 |-> [b \in 0..15 |-> OrBits(a, b, 4)]]

Xor8(a, b) == 16 * XorNib[a \div 16][b \div 16] + XorNib[a % 16][b % 16]
Or8(a, b)  == 16 * OrNib[a \div 16][b \div 16] + OrNib[a % 16][b % 16]

\* x ^ y and x | y on equally wide integers, byte by byte.
RECURSIVE XorW(_, _)
XorW(x, y) ==
    IF x = <<>> THEN <<>>
    ELSE <<Xor8(Head(x), Head(y))>> \o XorW(Tail(x), Tail(y))

RECURSIVE OrW(_, _)
OrW(x, y) ==
    IF x = <<>> THEN <<>>
    ELSE <<Or8(Head(x), Head(y))>> \o OrW(Tail(x), Tail(y))

\* Byte j of x, zero outside the integer.
ByteAt(x, j) == IF j >= 1 /\ j <= Len(x) THEN x[j] ELSE 0

\* Bytes i.. of x << n: byte i takes the low bits of byte i - n/8 and the
\* bits carried out of byte i - n/8 - 1.
RECURSIVE ShlFrom(_, _, _)
ShlFrom(x, n, i) ==
    LET q == n \div 8
        r == n % 8
    IN IF i > Len(x) THEN <<>>
       ELSE << ((ByteAt(x, i - q) * Pow2[r + 1]) % 256)
               + (ByteAt(x, i - q - 1) \div Pow2[8 - r + 1]) >>
            \o ShlFrom(x, n, i + 1)

\* x << n on an integer as wide as x: bits shifted past the top are dropped.
ShlW(x, n) == ShlFrom(x, n, 1)

\* Bytes i.. of x >> n.
RECURSIVE ShrFrom(_, _, _)
ShrFrom(x, n, i) ==
    LET q == n \div 8
        r == n % 8
    IN IF i > Len(x) THEN <<>>
       ELSE << (ByteAt(x, i + q) \div Pow2[r + 1])
               + ((ByteAt(x, i + q + 1) * Pow2[8 - r + 1]) % 256) >>
            \o ShrFrom(x, n, i + 1)

\* x >> n (logical) on an unsigned integer as wide as x.
ShrW(x, n) == ShrFrom(x, n, 1)

Zero32 == <<0, 0, 0, 0>>
Zero64 == <<0, 0, 0, 0, 0, 0, 0, 0>>

\* (uint64_t) t for a uint32_t t: zero extension.
U64OfU32(t) == t \o Zero32

\* ------------------------------------------------------------------------
\* struct label and the label algebra.
\* ------------------------------------------------------------------------

Label(d0, d1) == [d0 |-> d0, d1 |-> d1]

\* label_xor that leaves the second word alone.
label_xor_d0_only(l, o) == [d0 |-> XorW(l.d0, o.d0), d1 |-> l.d1]

\* label_xor(l, o): the new value of *l (o is only read).
label_xor(l, o) == [d0 |-> XorW(l.d0, o.d0), d1 |-> XorW(l.d1, o.d1)]

\* label_mul2 without the carry from d1 into d0.
label_mul2_no_carry(l) == [d0 |-> ShlW(l.d0, 1), d1 |-> ShlW(l.d1, 1)]

\* label_mul2(l): the new value of *l.
label_mul2(l) ==
    LET d0a == ShlW(l.d0, 1)
        d0b == OrW(d0a, ShrW(l.d1, 63))
        d1a == ShlW(l.d1, 1)
    IN [d0 |-> d0b, d1 |-> d1a]

\* label_mul4 that carries as label_mul2 does, d1 >> 63.
label_mul4_carry63(l) ==
    [d0 |-> OrW(ShlW(l.d0, 2), ShrW(l.d1, 63)), d1 |-> ShlW(l.d1, 2)]

\* label_mul4(l): the new value of *l.
label_mul4(l) ==
    LET d0a == ShlW(l.d0, 2)
        d0b == OrW(d0a, ShrW(l.d1, 62))
        d1a == ShlW(l.d1, 2)
    IN [d0 |-> d0b, d1 |-> d1a]

\* The local "label tweak = {(uint64_t) t, 0}" of make_k: positional
\* initialisation, so the first member d0 receives t and d1 receives 0.
make_k_tweak(t) == [d0 |-> U64OfU32(t), d1 |-> Zero64]

\* make_k(a, b, t) works in place: *a and *b are overwritten and the
\* returned pointer is a.  The record gives the new *a (which is the
\* returned label k) and the new *b.
make_k(a, b, t) ==
    LET a1 == label_mul2(a)
        b1 == label_mul4(b)
        a2 == label_xor(a1, b1)
        a3 == label_xor(a2, make_k_tweak(t))
    IN [a |-> a3, b |-> b1]

\* ------------------------------------------------------------------------
\* __m128i and the SSE2 / AES-NI intrinsics the file uses.  A __m128i is 16
\* bytes; byte 4*c + r + 1 is row r of column c of the AES state.
\* ------------------------------------------------------------------------

AES_BLOCK_SIZE == 16

\* The AES S-box (SubBytes), indexed by byte value + 1.
SBox ==
 << 99, 124, 119, 123, 242, 107, 111, 197, 48, 1, 103, 43, 254, 215, 171, 118,
    202, 130, 201, 125, 250, 89, 71, 240, 173, 212, 162, 175, 156, 164, 114, 192,
    183, 253, 147, 38, 54, 63, 247, 204, 52, 165, 229, 241, 113, 216, 49, 21,
    4, 199, 35, 195, 24, 150, 5, 154, 7, 18, 128, 226, 235, 39, 178, 117,
    9, 131, 44, 26, 27, 110, 90, 160, 82, 59, 214, 179, 41, 227, 47, 132,
    83, 209, 0, 237, 32, 252, 177, 91, 106, 203, 190, 57, 74, 76, 88, 207,
    208, 239, 170, 251, 67, 77, 51, 133, 69, 249, 2, 127, 80, 60, 159, 168,
    81, 163, 64, 143, 146, 157, 56, 245, 188, 182, 218, 33, 16, 255, 243, 210,
    205, 12, 19, 236, 95, 151, 68, 23, 196, 167, 126, 61, 100, 93, 25, 115,
    96, 129, 79, 220, 34, 42, 144, 136, 70, 238, 184, 20, 222, 94, 11, 219,
    224, 50, 58, 10, 73, 6, 36, 92, 194, 211, 172, 98, 145, 149, 228, 121,
    231, 200, 55, 109, 141, 213, 78, 169, 108, 86, 244, 234, 101, 122, 174, 8,
    186, 120, 37, 46, 28, 166, 180, 198, 232, 221, 116, 31, 75, 189, 139, 138,
    112, 62, 181, 102, 72, 3, 246, 14, 97, 53, 87, 185, 134, 193, 29, 158,
    225, 248, 152, 17, 105, 217, 142, 148, 155, 30, 135, 233, 206, 85, 40, 223,
    140, 161, 137, 13, 191, 230, 66, 104, 65, 153, 45, 15, 176, 84, 187, 22 >>

SubByte(x) == SBox[x + 1]

\* Multiplication by x (by 2) in GF(2^8) modulo x^8 + x^4 + x^3 + x + 1.
XTime(x) == Xor8((x * 2) % 256, IF x >= 128 THEN 27 ELSE 0)

\* ShiftRows: row r is rotated left by r columns.
ShiftRows(s) ==
    LET f(i) == LET c == (i - 1) \div 4
                    r == (i - 1) % 4
                IN s[4 * ((c + r) % 4) + r + 1]
    IN << f(1), f(2), f(3), f(4), f(5), f(6), f(7), f(8),
          f(9), f(10), f(11), f(12), f(13), f(14), f(15), f(16) >>

SubBytes(s) ==
    LET f(i) == SubByte(s[i])
    IN << f(1), f(2), f(3), f(4), f(5), f(6), f(7), f(8),
          f(9), f(10), f(11), f(12), f(13), f(14), f(15), f(16) >>

\* MixColumns: each column is multiplied by the matrix (2 3 1 1 / 1 2 3 1 /
\* 1 1 2 3 / 3 1 1 2); 3*x = 2*x ^ x.
MixColumns(s) ==
    LET f(i) ==
          LET c  == (i - 1) \div 4
              r  == (i - 1) % 4
              a0 == s[4 * c + r + 1]
              a1 == s[4 * c + ((r + 1) % 4) + 1]
              a2 == s[4 * c + ((r + 2) % 4) + 1]
              a3 == s[4 * c + ((r + 3) % 4) + 1]
          IN Xor8(Xor8(XTime(a0), Xor8(XTime(a1), a1)), Xor8(a2, a3))
    IN << f(1), f(2), f(3), f(4), f(5), f(6), f(7), f(8),
          f(9), f(10), f(11), f(12), f(13), f(14), f(15), f(16) >>

mm_xor_si128(a, b) == XorW(a, b)

\* _mm_aesenc_si128: ShiftRows, SubBytes, MixColumns, XOR with the round key.
mm_aesenc_si128(a, RoundKey) ==
    XorW(MixColumns(SubBytes(ShiftRows(a))), RoundKey)

\* _mm_aesenclast_si128: ShiftRows, SubBytes, XOR with the round key.
mm_aesenclast_si128(a, RoundKey) ==
    XorW(SubBytes(ShiftRows(a)), RoundKey)

\* RotWord of the instruction set reference: the 32-bit word rotated right
\* by 8 bits, i.e. bytes (b0, b1, b2, b3) become (b1, b2, b3, b0).
RotWord(w) == <<w[2], w[3], w[4], w[1]>>

SubWord(w) == <<SubByte(w[1]), SubByte(w[2]), SubByte(w[3]), SubByte(w[4])>>

\* _mm_aeskeygenassist_si128(a, rcon), with X1 = a[63:32], X3 = a[127:96]:
\*   dst[31:0]   = SubWord(X1)     dst[63:32]  = RotWord(SubWord(X1)) ^ rcon
\*   dst[95:64]  = SubWord(X3)     dst[127:96] = RotWord(SubWord(X3)) ^ rcon
mm_aeskeygenassist_si128(a, rcon) ==
    LET X1 == SubSeq(a, 5, 8)
        X3 == SubSeq(a, 13, 16)
        RC == <<rcon, 0, 0, 0>>
    IN SubWord(X1) \o XorW(RotWord(SubWord(X1)), RC)
       \o SubWord(X3) \o XorW(RotWord(SubWord(X3)), RC)

\* _mm_set_epi64x(e1, e0): e0 is the low quadword, e1 the high one.
mm_set_epi64x(e1, e0) == e0 \o e1

\* _mm_set1_epi32(t): t in each of the four 32-bit lanes.
mm_set1_epi32(t) == t \o t \o t \o t

\* _mm_slli_epi32(a, n): each 32-bit lane shifted left by n on its own.
mm_slli_epi32(a, n) ==
    ShlW(SubSeq(a, 1, 4), n) \o ShlW(SubSeq(a, 5, 8), n)
    \o ShlW(SubSeq(a, 9, 12), n) \o ShlW(SubSeq(a, 13, 16), n)

\* ((uint64_t *) &v)[i] for a __m128i v and i in {0, 1}.
U64At(v, i) == SubSeq(v, 8 * i + 1, 8 * i + 8)

\* ------------------------------------------------------------------------
\* make_cipher: cipher->key[0..14].
\* ------------------------------------------------------------------------

\* The immediates of lines 103-116, in source order.
make_cipher_rcon ==
    <<1, 2, 4, 8, 16, 32, 64, 128, 27, 54, 108, 216, 171, 77>>

\* key[0] is the loaded master key; key[i] is the raw result of
\* _mm_aeskeygenassist_si128 on key[i-1] with the i-th immediate.
RECURSIVE make_cipher_key(_, _)
make_cipher_key(key, i) ==
    IF i = 0 THEN key
    ELSE mm_aeskeygenassist_si128(make_cipher_key(key, i - 1),
                                  make_cipher_rcon[i])

make_cipher(key) == [i \in 0..14 |-> make_cipher_key(key, i)]

\* ------------------------------------------------------------------------
\* The AES round sequence of garble2 (lines 76-90) and garble (lines
\* 130-144): one entry per statement, in statement order, with the
\* intrinsic it calls and the index of the cipher->key element it reads.
\* ------------------------------------------------------------------------

\* The rounds of garble2 with round keys 1 and 2 used in the wrong order.
garble2_rounds_swapped ==
    << [op |-> "xor",        key |-> 0],
       [op |-> "aesenc",     key |-> 2],
       [op |-> "aesenc",     key |-> 1],
       [op |-> "aesenc",     key |-> 3],
       [op |-> "aesenc",     key |-> 4],
       [op |-> "aesenc",     key |-> 5],
       [op |-> "aesenc",     key |-> 6],
       [op |-> "aesenc",     key |-> 7],
       [op |-> "aesenc",     key |-> 8],
       [op |-> "aesenc",     key |-> 9],
       [op |-> "aesenc",     key |-> 10],
       [op |-> "aesenc",     key |-> 11],
       [op |-> "aesenc",     key |-> 12],
       [op |-> "aesenc",     key |-> 13],
       [op |-> "aesenclast", key |-> 14] >>

garble2_rounds ==
    << [op |-> "xor",        key |-> 0],
       [op |-> "aesenc",     key |-> 1],
       [op |-> "aesenc",     key |-> 2],
       [op |-> "aesenc",     key |-> 3],
       [op |-> "aesenc",     key |-> 4],
       [op |-> "aesenc",     key |-> 5],
       [op |-> "aesenc",     key |-> 6],
       [op |-> "aesenc",     key |-> 7],
       [op |-> "aesenc",     key |-> 8],
       [op |-> "aesenc",     key |-> 9],
       [op |-> "aesenc",     key |-> 10],
       [op |-> "aesenc",     key |-> 11],
       [op |-> "aesenc",     key |-> 12],
       [op |-> "aesenc",     key |-> 13],
       [op |-> "aesenclast", key |-> 14] >>

garble_rounds ==
    << [op |-> "xor",        key |-> 0],
       [op |-> "aesenc",     key |-> 1],
       [op |-> "aesenc",     key |-> 2],
       [op |-> "aesenc",     key |-> 3],
       [op |-> "aesenc",     key |-> 4],
       [op |-> "aesenc",     key |-> 5],
       [op |-> "aesenc",     key |-> 6],
       [op |-> "aesenc",     key |-> 7],
       [op |-> "aesenc",     key |-> 8],
       [op |-> "aesenc",     key |-> 9],
       [op |-> "aesenc",     key |-> 10],
       [op |-> "aesenc",     key |-> 11],
       [op |-> "aesenc",     key |-> 12],
       [op |-> "aesenc",     key |-> 13],
       [op |-> "aesenclast", key |-> 14] >>

\* One statement "pi = <intrinsic>(pi, cipher->key[n])".
ApplyRound(pi, step, key) ==
    CASE step.op = "xor"        -> mm_xor_si128(pi, key[step.key])
      [] step.op = "aesenc"     -> mm_aesenc_si128(pi, key[step.key])
      [] step.op = "aesenclast" -> mm_aesenclast_si128(pi, key[step.key])

\* The statements rounds[i..] executed in order, starting from pi; every
\* intermediate pi is a complete __m128i before the next statement runs.
RECURSIVE RunRounds(_, _, _, _)
RunRounds(rounds, key, pi, i) ==
    IF i > Len(rounds) \/ Len(pi) # AES_BLOCK_SIZE THEN pi
    ELSE RunRounds(rounds, key, ApplyRound(pi, rounds[i], key), i + 1)

\* ------------------------------------------------------------------------
\* garble2(cipher, a, b, c, t, ret), called with six distinct objects as
\* main does.  The result is the state after the call of every object the
\* function reaches through its pointer parameters (key, a, b, c, ret),
\* together with its locals k and pi and the round statements it executed.
\* ------------------------------------------------------------------------

garble2(key, a, b, c, t) ==
    LET mk      == make_k(a, b, t)
        label_k == mk.a
        k       == mm_set_epi64x(label_k.d0, label_k.d1)
        pi      == RunRounds(garble2_rounds, key, k, 1)
        ret0    == [d0 |-> U64At(pi, 0), d1 |-> U64At(pi, 1)]
        ret1    == label_xor(ret0, label_k)
        ret2    == label_xor(ret1, c)
    IN [key |-> key, a |-> mk.a, b |-> mk.b, c |-> c, ret |-> ret2,
        k |-> k, pi |-> pi, rounds |-> garble2_rounds]

\* ------------------------------------------------------------------------
\* garble(cipher, a, b, c, t) on __m128i values passed by value.
\* ------------------------------------------------------------------------

garble(key, a, b, c, t) ==
    LET k  == mm_xor_si128(mm_xor_si128(mm_slli_epi32(a, 1),
                                        mm_slli_epi32(b, 2)),
                           mm_set1_epi32(t))
        pi == RunRounds(garble_rounds, key, k, 1)
    IN [key |-> key, ret |-> mm_xor_si128(mm_xor_si128(pi, k), c),
        k |-> k, pi |-> pi, rounds |-> garble_rounds]

\* ------------------------------------------------------------------------
\* Inputs.
\* ------------------------------------------------------------------------

U64(b1, b2, b3, b4, b5, b6, b7, b8) == <<b1, b2, b3, b4, b5, b6, b7, b8>>

\* const unsigned char key[AES_BLOCK_SIZE] = "0123456789ABCDEF" of main.
MainKey ==
    <<48, 49, 50, 51, 52, 53, 54, 55, 56, 57, 65, 66, 67, 68, 69, 70>>

\* The FIPS-197 appendix A.1 key, as a second master key.
FipsKey ==
    <<43, 126, 21, 22, 40, 174, 210, 166, 171, 247, 21, 136, 9, 207, 79, 60>>

KeySet == {MainKey, FipsKey}

\* la, lb, lc of main: {42, 0}, {43, 0}, {44, 0}.
MainLa == Label(U64(42, 0, 0, 0, 0, 0, 0, 0), Zero64)
MainLb == Label(U64(43, 0, 0, 0, 0, 0, 0, 0), Zero64)
MainLc == Label(U64(44, 0, 0, 0, 0, 0, 0, 0), Zero64)

\* Labels whose top bits are set, so that the shifts carry and overflow.
TopBits ==
    Label(U64(1, 0, 0, 0, 0, 0, 0, 128), U64(1, 0, 0, 0, 0, 0, 0, 192))
AllOnes ==
    Label(U64(255, 255, 255, 255, 255, 255, 255, 255),
          U64(255, 255, 255, 255, 255, 255, 255, 255))
Mixed ==
    Label(U64(239, 205, 171, 137, 103, 69, 35, 1),
          U64(16, 50, 84, 118, 152, 186, 220, 254))
LowTop1 == Label(Zero64, U64(0, 0, 0, 0, 0, 0, 0, 128))
LowTop2 == Label(Zero64, U64(0, 0, 0, 0, 0, 0, 0, 64))
ZeroLabel == Label(Zero64, Zero64)

\* Arguments of garble2 in Spec.
ASet == {MainLa, TopBits, Mixed, ZeroLabel}
BSet == {MainLb, AllOnes, ZeroLabel}
CSet == {MainLc, Mixed}

\* "label lr;" is not initialised: it holds whatever the stack held.
LrSet == {ZeroLabel, AllOnes}

\* Tweaks (uint32_t) of the gate calls in Spec.
TweakSet == {<<0, 0, 0, 0>>, <<7, 0, 0, 0>>}

\* Labels and tweaks of SpecLabel.
LabelSet ==
    {MainLa, MainLb, ZeroLabel, TopBits, AllOnes, Mixed, LowTop1, LowTop2}
TweakSetL ==
    {<<0, 0, 0, 0>>, <<7, 0, 0, 0>>, <<1, 0, 0, 128>>,
     <<255, 255, 255, 255>>}

\* __m128i a, b, c of main: _mm_set1_epi32(42), (43), (44).
MainVa == mm_set1_epi32(<<42, 0, 0, 0>>)
MainVb == mm_set1_epi32(<<43, 0, 0, 0>>)
MainVc == mm_set1_epi32(<<44, 0, 0, 0>>)

Zero128 == Zero64 \o Zero64

\* ------------------------------------------------------------------------
\* State.
\* ------------------------------------------------------------------------

VARIABLES
    masterKey,  \* main: key[AES_BLOCK_SIZE]
    cipher,     \* main: cipher.key[0..14]
    la, lb, lc, \* main: the label objects passed to garble2
    lr,         \* main: the label object garble2 writes its result to
    pc,         \* main: "make_cipher", "loop1", "loop2", "done"
    i,          \* main: the loop counter
    last,       \* the most recent gate call: arguments as passed, results
    prev,       \* the garble2 call before the most recent one, if any
    ev,         \* the evaluator's garble2 call on the row in lr, if made
    x, y,       \* SpecLabel: two label objects
    lop,        \* SpecLabel: the most recent label operation, its arguments
    nops        \* SpecLabel: operations applied so far

mainVars == <<masterKey, cipher, la, lb, lc, lr, pc, i, last, prev, ev>>
labelVars == <<x, y, lop, nops>>
vars == <<masterKey, cipher, la, lb, lc, lr, pc, i, last, prev, ev,
          x, y, lop, nops>>

NoCall == [fn |-> "none"]

\* ------------------------------------------------------------------------
\* main.
\* ------------------------------------------------------------------------

\* "cipher cipher = {0}".
ZeroCipher == [n \in 0..14 |-> Zero128]

InitMain(key, a, b, c, r) ==
    /\ masterKey = key
    /\ cipher = ZeroCipher
    /\ la = a
    /\ lb = b
    /\ lc = c
    /\ lr = r
    /\ pc = "make_cipher"
    /\ i = 0
    /\ last = NoCall
    /\ prev = NoCall
    /\ ev = NoCall

InitLabel(a, b) ==
    /\ x = a
    /\ y = b
    /\ lop = NoCall
    /\ nops = 0

\* main, with the key and the labels drawn from the input sets.
Init ==
    /\ \E key \in KeySet, a \in ASet, b \in BSet, c \in CSet, r \in LrSet :
          InitMain(key, a, b, c, r)
    /\ InitLabel(ZeroLabel, ZeroLabel)

\* make_cipher(&cipher, key);
MakeCipherStep ==
    /\ pc = "make_cipher"
    /\ cipher' = make_cipher(masterKey)
    /\ pc' = "loop1"
    /\ i' = 0
    /\ UNCHANGED <<masterKey, la, lb, lc, lr, last, prev, ev>>
    /\ UNCHANGED labelVars

\* One iteration of the first loop: garble(&cipher, a, b, c, t); the
\* returned value is dropped by main and kept here in last.ret.
GarbleStep ==
    /\ pc = "loop1"
    /\ i < MaxRounds
    /\ \E t \in TweakSet :
          \E r \in {garble(cipher, MainVa, MainVb, MainVc, t)} :
             /\ cipher' = r.key
             /\ last' = [fn |-> "garble", key |-> cipher, t |-> t,
                         a |-> MainVa, b |-> MainVb, c |-> MainVc,
                         ret |-> r.ret, k |-> r.k, pi |-> r.pi,
                         rounds |-> r.rounds]
    /\ i' = i + 1
    /\ UNCHANGED <<masterKey, la, lb, lc, lr, pc, prev, ev>>
    /\ UNCHANGED labelVars

\* The first loop ends; the second starts with i = 0.
Loop1Exit ==
    /\ pc = "loop1"
    /\ ~(i < MaxRounds)
    /\ pc' = "loop2"
    /\ i' = 0
    /\ UNCHANGED <<masterKey, cipher, la, lb, lc, lr, last, prev, ev>>
    /\ UNCHANGED labelVars

\* One iteration of the second loop: garble2(&cipher, &la, &lb, &lc, t, &lr).
Garble2Step ==
    /\ pc = "loop2"
    /\ i < MaxRounds
    /\ \E t \in TweakSet :
          \E r \in {garble2(cipher, la, lb, lc, t)} :
             /\ cipher' = r.key
             /\ la' = r.a
             /\ lb' = r.b
             /\ lc' = r.c
             /\ lr' = r.ret
             /\ last' = [fn |-> "garble2", key |-> cipher, t |-> t,
                         a |-> la, b |-> lb, c |-> lc,
                         ret |-> r.ret, k |-> r.k, pi |-> r.pi,
                         rounds |-> r.rounds]
    /\ prev' = IF last.fn = "garble2" THEN last ELSE NoCall
    /\ ev' = NoCall
    /\ i' = i + 1
    /\ UNCHANGED <<masterKey, pc>>
    /\ UNCHANGED labelVars

\* The evaluating party's call for the same gate: garble2 on label objects
\* of its own that hold the values a and b had when the row was made, the
\* same tweak, and the row (the value of lr) as the third label.
EvaluateStep ==
    /\ pc = "loop2"
    /\ last.fn = "garble2"
    /\ ev = NoCall
    /\ \E r \in {garble2(cipher, last.a, last.b, lr, last.t)} :
          /\ cipher' = r.key
          /\ ev' = [fn |-> "garble2", key |-> cipher, t |-> last.t,
                    a |-> last.a, b |-> last.b, c |-> lr, ret |-> r.ret]
    /\ UNCHANGED <<masterKey, la, lb, lc, lr, pc, i, last, prev>>
    /\ UNCHANGED labelVars

\* The second loop ends: return 0.
Loop2Exit ==
    /\ pc = "loop2"
    /\ ~(i < MaxRounds)
    /\ pc' = "done"
    /\ UNCHANGED <<masterKey, cipher, la, lb, lc, lr, i, last, prev, ev>>
    /\ UNCHANGED labelVars

Next ==
    \/ MakeCipherStep
    \/ GarbleStep
    \/ Loop1Exit
    \/ Garble2Step
    \/ EvaluateStep
    \/ Loop2Exit

Spec == Init /\ [][Next]_vars

\* ------------------------------------------------------------------------
\* The label algebra on its own: the operations applied, in place, to two
\* label objects x and y whose values are drawn from LabelSet.
\* ------------------------------------------------------------------------

InitL ==
    /\ InitMain(MainKey, MainLa, MainLb, MainLc, ZeroLabel)
    /\ \E a \in LabelSet, b \in LabelSet : InitLabel(a, b)

\* label_mul2(&x);
LabelMul2Step ==
    /\ nops < MaxOps
    /\ x' = label_mul2(x)
    /\ lop' = [fn |-> "label_mul2", a |-> x, b |-> y, t |-> Zero32]
    /\ nops' = nops + 1
    /\ UNCHANGED y
    /\ UNCHANGED mainVars

\* label_mul4(&x);
LabelMul4Step ==
    /\ nops < MaxOps
    /\ x' = label_mul4(x)
    /\ lop' = [fn |-> "label_mul4", a |-> x, b |-> y, t |-> Zero32]
    /\ nops' = nops + 1
    /\ UNCHANGED y
    /\ UNCHANGED mainVars

\* label_xor(&x, &y);
LabelXorStep ==
    /\ nops < MaxOps
    /\ x' = label_xor(x, y)
    /\ lop' = [fn |-> "label_xor", a |-> x, b |-> y, t |-> Zero32]
    /\ nops' = nops + 1
    /\ UNCHANGED y
    /\ UNCHANGED mainVars

\* make_k(&x, &y, t); the returned pointer is &x.
MakeKStep ==
    /\ nops < MaxOps
    /\ \E t \in TweakSetL :
          \E r \in {make_k(x, y, t)} :
             /\ x' = r.a
             /\ y' = r.b
             /\ lop' = [fn |-> "make_k", a |-> x, b |-> y, t |-> t]
    /\ nops' = nops + 1
    /\ UNCHANGED mainVars

NextL ==
    \/ LabelMul2Step
    \/ LabelMul4Step
    \/ LabelXorStep
    \/ MakeKStep

SpecLabel == InitL /\ [][NextL]_vars

\* ------------------------------------------------------------------------
\* Reference notions the claims are stated with.
\* ------------------------------------------------------------------------

\* The label read as the 128-bit unsigned integer d0 * 2^64 + d1, as its 16
\* bytes from the least significant one.
Value128(l) == l.d1 \o l.d0

\* Bytes i.. of (v * m + carry * 256^(i-1)) mod 256^Len(v), by long
\* multiplication in base 256.
RECURSIVE TimesFrom(_, _, _, _)
TimesFrom(v, m, n, carry) ==
    IF n > Len(v) THEN <<>>
    ELSE <<(v[n] * m + carry) % 256>>
         \o TimesFrom(v, m, n + 1, (v[n] * m + carry) \div 256)

\* (v * m) mod 2^(8 * Len(v)).
Times(v, m) == TimesFrom(v, m, 1, 0)

\* widen(t): the tweak zero-extended into the low 64-bit word of the
\* 128-bit value, the high word zero; as a 128-bit integer its value is t.
WidenInt(t) == t \o Zero32 \o Zero64

\* The label <-> block correspondence garble2 uses for k (line 73).
Block(l) == mm_set_epi64x(l.d0, l.d1)

\* One step of the standard AES-128 key expansion (FIPS-197, 5.2): the next
\* round key from the previous one and a round constant.
StdExpand(rk, rcon) ==
    LET w0 == SubSeq(rk, 1, 4)
        w1 == SubSeq(rk, 5, 8)
        w2 == SubSeq(rk, 9, 12)
        w3 == SubSeq(rk, 13, 16)
        g  == XorW(SubWord(<<w3[2], w3[3], w3[4], w3[1]>>), <<rcon, 0, 0, 0>>)
        n0 == XorW(w0, g)
        n1 == XorW(w1, n0)
        n2 == XorW(w2, n1)
        n3 == XorW(w3, n2)
    IN n0 \o n1 \o n2 \o n3

\* The round constants 0x01 ... 0x4D of the key-schedule claim.
StdRcon == <<1, 2, 4, 8, 16, 32, 64, 128, 27, 54, 108, 216, 171, 77>>

\* XOR with round key 0, encrypt rounds with round keys 1..13 in ascending
\* order, final round with round key 14.
ExpectedRounds ==
    <<[op |-> "xor", key |-> 0]>>
    \o [n \in 1..13 |-> [op |-> "aesenc", key |-> n]]
    \o <<[op |-> "aesenclast", key |-> 14]>>

\* ------------------------------------------------------------------------
\* Claims.
\* ------------------------------------------------------------------------

\* C1: the label garble2 stores in ret equals pi XOR k XOR c position by
\* position on the 128-bit blocks, k being the block fed to the AES rounds
\* and pi their result: each half of pi meets the same half of k and of c.
C1_RetIsPiXorKXorC ==
    last.fn = "garble2" =>
        Block(lr) = mm_xor_si128(mm_xor_si128(last.pi, last.k),
                                 Block(last.c))

\* C2: after garble2(cipher, a, b, c, t, ret) the caller's labels a, b and
\* c hold the values they held before the call.
C2_InputsUnchanged ==
    last.fn = "garble2" =>
        /\ la = last.a
        /\ lb = last.b
        /\ lc = last.c

\* C3: two successive calls of garble2 that are passed the same cipher, the
\* same label objects and the same tweak return the same label.
C3_SameCallSameResult ==
    (last.fn = "garble2" /\ prev.fn = "garble2" /\ last.t = prev.t
     /\ last.key = prev.key)
        => last.ret = prev.ret

\* C4: make_k(a, b, t) yields double(a) XOR quadruple(b) XOR widen(t) with
\* the tweak in the low word; for a = b = 0 the block has the value t.
C4_MakeKTweakInLowWord ==
    lop.fn = "make_k" =>
        Value128(x) = XorW(XorW(Times(Value128(lop.a), 2),
                                Times(Value128(lop.b), 4)),
                           WidenInt(lop.t))

\* C5: label_mul2 replaces x by (x * 2) mod 2^128, x read as the integer
\* d0 * 2^64 + d1.
C5_Mul2IsTimes2 ==
    lop.fn = "label_mul2" => Value128(x) = Times(Value128(lop.a), 2)

\* A doubling in which d1 carries into d0 and the top bit of d0 is lost.
C5_Witness ==
    /\ lop.fn = "label_mul2"
    /\ lop.a.d1[8] >= 128
    /\ lop.a.d0[8] >= 128
    /\ x.d0[1] % 2 = 1

\* C6: label_mul4 replaces x by (x * 4) mod 2^128, and the result equals
\* label_mul2 applied twice.
C6_Mul4IsTimes4 ==
    lop.fn = "label_mul4" =>
        /\ Value128(x) = Times(Value128(lop.a), 4)
        /\ x = label_mul2(label_mul2(lop.a))

\* A quadrupling in which exactly the higher of the two top bits of d1 is
\* set, so that the order of the two carried bits shows.
C6_Witness ==
    /\ lop.fn = "label_mul4"
    /\ lop.a.d1[8] \div 64 = 2
    /\ x.d0[1] % 4 = 2

\* C7: round key 0 is the master key and every round key n in 1..14 is the
\* standard key-expansion step of round key n-1 with the n-th round constant.
C7_StandardKeySchedule ==
    pc # "make_cipher" =>
        /\ cipher[0] = masterKey
        /\ \A n \in 1..14 : cipher[n] = StdExpand(cipher[n - 1], StdRcon[n])

\* C8: if r is the result of garble2 on (a, b, c, t), then garble2 on the
\* same values a and b, the same t and r as third label returns c; the
\* result XOR c is the same in both calls.
C8_RoundTrip ==
    (/\ last.fn = "garble2"
     /\ ev.fn = "garble2"
     /\ ev.key = last.key
     /\ ev.a = last.a
     /\ ev.b = last.b
     /\ ev.t = last.t
     /\ ev.c = last.ret)
        => /\ ev.ret = last.c
           /\ label_xor(ev.ret, ev.c) = label_xor(last.ret, last.c)

\* The evaluator has made its call on a row that differs from c, for a
\* label c with both words nonzero.
C8_Witness ==
    /\ last.fn = "garble2"
    /\ ev.fn = "garble2"
    /\ ev.a = last.a
    /\ ev.b = last.b
    /\ ev.t = last.t
    /\ ev.c = last.ret
    /\ last.c = Mixed
    /\ last.ret # last.c

\* C9: garble2 and garble run XOR with round key 0, then encrypt rounds with
\* round keys 1..13 in ascending order, then the final round with round key
\* 14, and leave the 15 round keys as they were.
C9_RoundOrder ==
    /\ last.fn \in {"garble", "garble2"} =>
          /\ last.rounds = ExpectedRounds
          /\ cipher = last.key
    /\ ev.fn = "garble2" => cipher = ev.key

\* Both functions have run on a made key schedule.
C9_Witness ==
    /\ pc = "done"
    /\ last.fn = "garble2"
    /\ prev.fn = "garble2"
    /\ cipher = make_cipher(masterKey)

\* C10: for fixed a and b and tweaks t1 # t2, the blocks make_k(a, b, t1)
\* and make_k(a, b, t2) differ and their XOR is widen(t1 XOR t2).
C10_TweakInjective ==
    lop.fn = "make_k" =>
        \A t2 \in TweakSetL \ {lop.t} :
            LET k2 == make_k(lop.a, lop.b, t2).a
            IN /\ k2 # x
               /\ XorW(Value128(x), Value128(k2))
                     = WidenInt(XorW(lop.t, t2))

====
